---------------------------- MODULE Spec2Model ----------------------------
(***************************************************************************)
(* The audio player controller of src/src/scripts/audio-player.ts as a     *)
(* state machine: the PlayerState object, the media element (the handle)   *)
(* it drives, the DOM elements it writes, its timers and the media         *)
(* element's pending events.                                               *)
(*                                                                         *)
(* Units.  Volumes are integers in hundredths (audio.volume 0.5 is 50).    *)
(* Positions (audio.currentTime) are integers in hundredths of a second,   *)
(* durations are integers in seconds, or NaN while the metadata is not     *)
(* loaded.  Percentages (seekSlider.value, progressBar width) are exact    *)
(* fractions [n, d] in lowest terms.  Floating-point rounding is not       *)
(* modelled: arithmetic is exact.                                          *)
(***************************************************************************)
EXTENDS Integers, Sequences, FiniteSets, TLC

VARIABLES
    audio,          \* the media element: paused, currentTime, duration, volume, muted, error
    state,          \* PlayerState (audio-player.ts:44-51)
    icons,          \* "hidden" class of playIcon, pauseIcon, volumeIcon, muteIcon
    volumeSlider,   \* volumeSlider.value, in percent
    seekSlider,     \* [value, disabled] of the seek slider
    currentTimeEl,  \* text of the elapsed-time label
    progressBar,    \* width of the progress bar, a percentage
    feedback,       \* the toast: text, type, opacity, dataset.timeout, pending hide timers
    seekDebounce,   \* the debounce closure of the seek input handler: timeoutId, pending timers
    durationEl,     \* text of the duration label
    tasks,          \* media element tasks queued by the handle, not yet run
    playPromise,    \* the promise of the play request togglePlayPause made: "none" or "pending"
    dragging,       \* the user holds the seek slider (input seen, change not yet)
    lastOp,         \* history: the handler that ran last, its argument, the volume before it
    lastCommit,     \* history: slider value and resulting position of the last seek commit
    speedControl,   \* the speed button's text and aria-expanded, the menu's "hidden" class,
                    \* the aria-checked of each option
    page            \* the document the script runs in: the required elements it has,
                    \* whether window.audioPlayer is exposed, and which of the two
                    \* implementations of the controller it loads

vars == <<audio, state, icons, volumeSlider, seekSlider, currentTimeEl, progressBar,
          feedback, seekDebounce, durationEl, tasks, playPromise, dragging, lastOp,
          lastCommit, speedControl, page>>

(***************************************************************************)
(* Constants of the program                                                *)
(***************************************************************************)
SEEK_JUMP == 10
VOLUME_JUMP == 5
SUPPORTED_SPEEDS == <<50, 75, 100, 125, 150, 175, 200>>
DEFAULT_LAST_VOLUME == 50
\* the duration of a handle whose metadata is not loaded (no duration is negative)
NaN == 0 - 1

(***************************************************************************)
(* Bounds of the model                                                     *)
(***************************************************************************)
\* volume slider positions the page starts with or the user chooses, in percent
SliderVolumes == {0, 25, 50, 75, 100}
\* volume slider positions from which the volume keys are exercised, in percent
KeyStartVolumes == {3, 50, 98}
\* volumes requested of updateVolume when it is exercised alone: -Overshoot .. 100 + Overshoot
Overshoot == 10
\* at most this many media element tasks wait to run
MaxTasks == 2
\* durations the metadata may announce, in seconds
Durations == {120, 200}
\* steps by which playback advances between two observations, in hundredths of a second
AdvanceSteps == {10000}
\* seek slider positions the user chooses, in percent
SeekValues == {0, 50, 100}
RequestedVolumes == (0 - Overshoot)..(100 + Overshoot)
\* rates requested of window.audioPlayer.setSpeed, in hundredths: supported ones and others
SpeedRequests == {0, 50, 110, 150, 200, 300}

\* positions requested of window.audioPlayer.seekTo, in hundredths of a second
SeekToTimes == {300, 11500}

\* where every shortcut is exercised, the volume keys are pressed only while the volume
\* is within this distance of the default, in hundredths
KeyVolumeWindow == 5
\* the volumes the slider sets, the options of the speed menu chosen, the values of the
\* seek slider and the durations of the media, around a failure of the source
ErrorVolumes == {0}
ErrorSpeeds == {5}
ErrorSeekValues == {50}
ErrorDurations == {10}
\* the keys of the shortcuts, as e.key.toLowerCase() gives them
ShortcutKeys == {" ", "m", "j", "k", "l", "arrowup", "arrowdown", "home", "end"}
\* the elements a key event is dispatched to: the body, a button, an input, a textarea, a
\* contenteditable element, an element inside a role="textbox"
KeyTargets ==
    { [tagName |-> "BODY", isContentEditable |-> FALSE, inTextbox |-> FALSE],
      [tagName |-> "BUTTON", isContentEditable |-> FALSE, inTextbox |-> FALSE],
      [tagName |-> "INPUT", isContentEditable |-> FALSE, inTextbox |-> FALSE],
      [tagName |-> "TEXTAREA", isContentEditable |-> FALSE, inTextbox |-> FALSE],
      [tagName |-> "DIV", isContentEditable |-> TRUE, inTextbox |-> FALSE],
      [tagName |-> "SPAN", isContentEditable |-> FALSE, inTextbox |-> TRUE] }

\* the elements the script requires of the page (audio-player.ts:3-7, 28-32)
RequiredElements == {"container", "audioElement", "playPauseBtn"}

(***************************************************************************)
(* Helpers                                                                 *)
(***************************************************************************)
Max(a, b) == IF a >= b THEN a ELSE b
Min(a, b) == IF a <= b THEN a ELSE b

Digits == <<"0", "1", "2", "3", "4", "5", "6", "7", "8", "9">>

RECURSIVE NatToString(_)
\* Number.prototype.toString() of a non-negative integer
NatToString(n) ==
    IF n < 10 THEN Digits[n + 1]
    ELSE NatToString(n \div 10) \o Digits[(n % 10) + 1]

\* String.prototype.padStart(2, '0')
PadStart2(s) == IF Len(s) < 2 THEN "0" \o s ELSE s

\* a timer id no pending timer of the set has
FreshTimer(pending) == CHOOSE i \in 1..(Cardinality(pending) + 1) : i \notin pending

\* the history record of a handler that ran; volume handlers also record their predecessor
Op(name, arg) ==
    [name |-> name, arg |-> arg, prev |-> "",
     preVolume |-> audio.volume, preUnmuted |-> (~audio.muted /\ ~state.isMuted)]

VolumeOp(name, arg) == [Op(name, arg) EXCEPT !.prev = lastOp.name]

\* what the document 'click' listener does for a target outside the speed menu and the
\* speed button (audio-player.ts:358-364); every click on a control of the player bubbles
\* to it, except the speed button's, which stops the propagation
closeSpeedMenu == [speedControl EXCEPT !.menuHidden = TRUE, !.expanded = FALSE]

(***************************************************************************)
(* showFeedback (audio-player.ts:189-205), as a function of the toast      *)
(***************************************************************************)
\* a plausible slip: the pending auto-hide timer is not cancelled (as in the older variant
\* of the controller, part_000:108-115)
showFeedback_noClear(fb, message, type) ==
    LET timeoutId == FreshTimer(fb.pending)
    IN  [text |-> message, type |-> type, opacity |-> 1,
         timeout |-> timeoutId, pending |-> fb.pending \cup {timeoutId}]

showFeedback(fb, message, type) ==
    LET cleared == IF fb.timeout = 0 THEN fb.pending ELSE fb.pending \ {fb.timeout}
        timeoutId == FreshTimer(cleared)
    IN  [text |-> message, type |-> type, opacity |-> 1,
         timeout |-> timeoutId, pending |-> cleared \cup {timeoutId}]

\* the callback of the auto-hide timer (audio-player.ts:200-202)
FeedbackTimeout ==
    /\ \E id \in feedback.pending :
          feedback' = [feedback EXCEPT !.opacity = 0, !.pending = @ \ {id}]
    /\ lastOp' = Op("feedbackTimeout", 0)
    /\ UNCHANGED <<audio, state, icons, volumeSlider, seekSlider, currentTimeEl,
                   progressBar, seekDebounce, durationEl, tasks, playPromise, dragging,
                   lastCommit,
                   speedControl, page>>

\* the handle's 'waiting' event (audio-player.ts:282-284)
Waiting ==
    /\ feedback' = showFeedback(feedback, "Buffering...", "info")
    /\ lastOp' = VolumeOp("waiting", 0)
    /\ UNCHANGED <<audio, state, icons, volumeSlider, seekSlider, currentTimeEl,
                   progressBar, seekDebounce, durationEl, tasks, playPromise, dragging,
                   lastCommit, speedControl, page>>

\* the handle's 'canplay' event (audio-player.ts:286-291): the toast is hidden if it is the
\* buffering toast; its timer is left to run
CanPlay ==
    /\ feedback' = IF feedback.text = "Buffering..."
                   THEN [feedback EXCEPT !.opacity = 0]
                   ELSE feedback
    /\ lastOp' = Op("canplay", 0)
    /\ UNCHANGED <<audio, state, icons, volumeSlider, seekSlider, currentTimeEl,
                   progressBar, seekDebounce, durationEl, tasks, playPromise, dragging,
                   lastCommit, speedControl, page>>

(***************************************************************************)
(* Volume                                                                  *)
(***************************************************************************)
\* a plausible slip: the mute flag derived from the requested, not the clamped, volume
updateVolume_unclampedMute(volume) ==
    LET clampedVolume == Max(0, Min(100, volume))
        isMuted == (volume = 0)
    IN  [volume |-> clampedVolume, isMuted |-> isMuted,
         volumeIconHidden |-> isMuted, muteIconHidden |-> ~isMuted,
         sliderValue |-> clampedVolume]

\* updateVolume (audio-player.ts:243-267): what it writes, from the requested volume
updateVolume(volume) ==
    LET clampedVolume == Max(0, Min(100, volume))
        isMuted == (clampedVolume = 0)
    IN  [volume |-> clampedVolume, isMuted |-> isMuted,
         volumeIconHidden |-> isMuted, muteIconHidden |-> ~isMuted,
         sliderValue |-> clampedVolume]

\* the writes of updateVolume to the handle and the DOM (state is written by the caller's action)
ApplyVolume(r) ==
    /\ audio' = [audio EXCEPT !.volume = r.volume, !.muted = r.isMuted]
    /\ icons' = [icons EXCEPT !.volumeIcon = r.volumeIconHidden, !.muteIcon = r.muteIconHidden]
    /\ volumeSlider' = r.sliderValue

\* volumeSlider 'input' listener (audio-player.ts:335-338)
VolumeSliderInput(v) ==
    LET r == updateVolume(v)
    IN  /\ ApplyVolume(r)
        /\ state' = [state EXCEPT !.volume = r.volume, !.isMuted = r.isMuted]
        /\ lastOp' = VolumeOp("volumeSliderInput", v)
        /\ UNCHANGED <<seekSlider, currentTimeEl, progressBar, feedback, seekDebounce,
                       durationEl, tasks, playPromise, dragging, lastCommit,
                       speedControl, page>>

\* a plausible slip: the mute button flips the handle's muted flag and leaves its volume
toggleMute_flagOnly(opName) ==
    LET isMuted == ~audio.muted
    IN  /\ audio' = [audio EXCEPT !.muted = isMuted]
        /\ icons' = [icons EXCEPT !.volumeIcon = isMuted, !.muteIcon = ~isMuted]
        /\ state' = [state EXCEPT !.isMuted = isMuted]
        /\ speedControl' = closeSpeedMenu
        /\ lastOp' = VolumeOp(opName, 0)
        /\ UNCHANGED <<volumeSlider, seekSlider, currentTimeEl, progressBar, feedback,
                       seekDebounce, durationEl, tasks, playPromise, dragging, lastCommit,
                       page>>

\* volumeBtn 'click' listener (audio-player.ts:321-333), then the document 'click' listener;
\* opName tells the click from the 'm' key
toggleMute(opName) ==
    LET restore == IF state.lastVolume # 0 THEN state.lastVolume ELSE DEFAULT_LAST_VOLUME
        r == IF state.isMuted THEN updateVolume(restore) ELSE updateVolume(0)
    IN  /\ ApplyVolume(r)
        /\ state' = [state EXCEPT
                        !.lastVolume = IF state.isMuted THEN @ ELSE audio.volume,
                        !.volume = r.volume,
                        \* line 332 negates the flag updateVolume has just written
                        !.isMuted = ~r.isMuted]
        /\ speedControl' = closeSpeedMenu
        /\ lastOp' = VolumeOp(opName, 0)
        /\ UNCHANGED <<seekSlider, currentTimeEl, progressBar, feedback, seekDebounce,
                       durationEl, tasks, playPromise, dragging, lastCommit, page>>

MuteButtonClick == toggleMute("muteButtonClick")

\* keydown 'm' (audio-player.ts:418-421): volumeBtn.click(), dispatched synchronously
KeyM == toggleMute("keyM")

\* a plausible slip: the step is not bounded, the clamp is left to updateVolume
KeyArrow_unclamped(dir) ==
    LET newVolume == audio.volume + dir * VOLUME_JUMP
        r == updateVolume(newVolume)
        shown == IF newVolume < 0 THEN "-" \o NatToString(0 - newVolume)
                 ELSE NatToString(newVolume)
    IN  /\ ApplyVolume(r)
        /\ state' = [state EXCEPT !.volume = r.volume, !.isMuted = r.isMuted]
        /\ feedback' = showFeedback(feedback, "Volume: " \o shown \o "%", "info")
        /\ lastOp' = VolumeOp(IF dir = 1 THEN "keyArrowUp" ELSE "keyArrowDown", newVolume)
        /\ UNCHANGED <<seekSlider, currentTimeEl, progressBar, seekDebounce,
                       durationEl, tasks, playPromise, dragging, lastCommit,
                       speedControl, page>>

\* keydown 'arrowup' / 'arrowdown' (audio-player.ts:444-460); dir is 1 or -1
KeyArrow(dir) ==
    LET newVolume == IF dir = 1 THEN Min(100, audio.volume + VOLUME_JUMP)
                                ELSE Max(0, audio.volume - VOLUME_JUMP)
        r == updateVolume(newVolume)
    IN  /\ ApplyVolume(r)
        /\ state' = [state EXCEPT !.volume = r.volume, !.isMuted = r.isMuted]
        /\ feedback' = showFeedback(feedback,
                                    "Volume: " \o NatToString(newVolume) \o "%", "info")
        /\ lastOp' = VolumeOp(IF dir = 1 THEN "keyArrowUp" ELSE "keyArrowDown", newVolume)
        /\ UNCHANGED <<seekSlider, currentTimeEl, progressBar, seekDebounce,
                       durationEl, tasks, playPromise, dragging, lastCommit,
                       speedControl, page>>

KeyArrowUp == KeyArrow(1)
KeyArrowDown == KeyArrow(-1)

\* updateVolume called with an arbitrary requested volume (its contract, exercised alone)
UpdateVolumeCall(v) ==
    LET r == updateVolume(v)
    IN  /\ ApplyVolume(r)
        /\ state' = [state EXCEPT !.volume = r.volume, !.isMuted = r.isMuted]
        /\ lastOp' = VolumeOp("updateVolume", v)
        /\ UNCHANGED <<seekSlider, currentTimeEl, progressBar, feedback, seekDebounce,
                       durationEl, tasks, playPromise, dragging, lastCommit,
                       speedControl, page>>

(***************************************************************************)
(* Time, progress and seeking                                              *)
(***************************************************************************)
RECURSIVE GCD(_, _)
GCD(a, b) == IF b = 0 THEN a ELSE GCD(b, a % b)

\* the fraction n/d in lowest terms (d > 0, n >= 0)
Frac(n, d) ==
    IF n = 0 THEN [n |-> 0, d |-> 1]
    ELSE LET g == GCD(n, d) IN [n |-> n \div g, d |-> d \div g]

\* formatTime (audio-player.ts:101-107); its argument is in hundredths of a second
formatTime(seconds) ==
    IF seconds = NaN \/ seconds < 0 THEN "00:00"
    ELSE LET mins == seconds \div 6000
             secs == (seconds \div 100) % 60
         IN  PadStart2(NatToString(mins)) \o ":" \o PadStart2(NatToString(secs))

\* audioElement.duration || 0
DurationOrZero == IF audio.duration = NaN THEN 0 ELSE audio.duration

\* (value / 100) * duration, in hundredths of a second
PendingPosition(value) == (value.n * DurationOrZero) \div value.d

\* updateProgress (audio-player.ts:121-141): the label, the bar and the slider value it leaves
updateProgress ==
    IF state.isSeeking
    THEN [currentTimeEl |-> currentTimeEl, progressBar |-> progressBar,
          seekValue |-> seekSlider.value]
    ELSE LET duration == DurationOrZero
             progressPercent == IF duration # 0 THEN Frac(audio.currentTime, duration)
                                ELSE Frac(0, 1)
         IN  [currentTimeEl |-> formatTime(audio.currentTime),
              progressBar |-> progressPercent,
              seekValue |-> progressPercent]

ApplyProgress(r) ==
    /\ currentTimeEl' = r.currentTimeEl
    /\ progressBar' = r.progressBar
    /\ seekSlider' = [seekSlider EXCEPT !.value = r.seekValue]

\* the handle's 'timeupdate' event (listener at audio-player.ts:274); the handle fires it
\* while it plays and after every seek, so it may arrive in any state
TimeUpdate ==
    /\ ApplyProgress(updateProgress)
    /\ lastOp' = Op("timeupdate", 0)
    /\ UNCHANGED <<audio, state, icons, volumeSlider, feedback, seekDebounce, durationEl,
                   tasks, playPromise, dragging, lastCommit,
                   speedControl, page>>

\* the handle's 'loadedmetadata' event with duration d (updateDuration, audio-player.ts:143-156)
LoadedMetadata(d) ==
    /\ audio.duration = NaN
    /\ audio.error = "none"
    /\ audio' = [audio EXCEPT !.duration = d]
    /\ durationEl' = formatTime(d * 100)
    /\ seekSlider' = [seekSlider EXCEPT !.disabled = FALSE]
    /\ lastOp' = Op("loadedmetadata", d)
    /\ lastCommit' = [lastCommit EXCEPT !.valid = FALSE]
    /\ UNCHANGED <<state, icons, volumeSlider, currentTimeEl, progressBar, feedback,
                   seekDebounce, tasks, playPromise, dragging,
                   speedControl, page>>

\* the history record of a seek slider input: it tells an input that follows an input
SeekInputOp(v) ==
    [Op("seekSliderInput", v) EXCEPT
        !.prev = IF lastOp.name = "seekSliderInput" THEN lastOp.name ELSE ""]

\* a plausible slip: the debounce wrapper starts a timer without cancelling the pending one
SeekSliderInput_noClear(v) ==
    /\ ~seekSlider.disabled
    /\ seekSlider' = [seekSlider EXCEPT !.value = Frac(v, 1)]
    /\ dragging' = TRUE
    /\ LET timeoutId == FreshTimer(seekDebounce.pending)
       IN  seekDebounce' = [timeoutId |-> timeoutId,
                            pending |-> seekDebounce.pending \cup {timeoutId}]
    /\ lastOp' = SeekInputOp(v)
    /\ UNCHANGED <<audio, state, icons, volumeSlider, currentTimeEl, progressBar, feedback,
                   durationEl, tasks, playPromise, lastCommit,
                   speedControl, page>>

\* seekSlider 'input' event, the user moving the slider to v percent: the debounce wrapper
\* (audio-player.ts:109-118) cancels its pending timer and starts a new one
SeekSliderInput(v) ==
    /\ ~seekSlider.disabled
    /\ seekSlider' = [seekSlider EXCEPT !.value = Frac(v, 1)]
    /\ dragging' = TRUE
    /\ LET cleared == seekDebounce.pending \ {seekDebounce.timeoutId}
           timeoutId == FreshTimer(cleared)
       IN  seekDebounce' = [timeoutId |-> timeoutId, pending |-> cleared \cup {timeoutId}]
    /\ lastOp' = SeekInputOp(v)
    /\ UNCHANGED <<audio, state, icons, volumeSlider, currentTimeEl, progressBar, feedback,
                   durationEl, tasks, playPromise, lastCommit,
                   speedControl, page>>

\* a plausible slip: the drag handler writes the pending position to the handle
SeekInputCallback_writesHandle ==
    /\ \E id \in seekDebounce.pending :
          seekDebounce' = [seekDebounce EXCEPT !.pending = @ \ {id}]
    /\ state' = [state EXCEPT !.isSeeking = TRUE]
    /\ audio' = [audio EXCEPT !.currentTime = PendingPosition(seekSlider.value)]
    /\ currentTimeEl' = formatTime(PendingPosition(seekSlider.value))
    /\ progressBar' = seekSlider.value
    /\ lastOp' = Op("seekInputCallback", 0)
    /\ UNCHANGED <<icons, volumeSlider, seekSlider, feedback, durationEl, tasks,
                   playPromise, dragging, lastCommit,
                   speedControl, page>>

\* the debounce timer fires: the body of the 'input' listener (audio-player.ts:300-309)
SeekInputCallback ==
    /\ \E id \in seekDebounce.pending :
          seekDebounce' = [seekDebounce EXCEPT !.pending = @ \ {id}]
    /\ state' = [state EXCEPT !.isSeeking = TRUE]
    /\ currentTimeEl' = formatTime(PendingPosition(seekSlider.value))
    /\ progressBar' = seekSlider.value
    /\ lastOp' = Op("seekInputCallback", 0)
    /\ UNCHANGED <<audio, icons, volumeSlider, seekSlider, feedback, durationEl, tasks,
                   playPromise, dragging, lastCommit,
                   speedControl, page>>

\* a plausible slip: the slider's percentage taken for seconds, the duration left out
SeekSliderChange_percentAsSeconds ==
    /\ dragging
    /\ LET position == Min(DurationOrZero * 100,
                           (seekSlider.value.n * 100) \div seekSlider.value.d)
       IN  /\ audio' = [audio EXCEPT !.currentTime = position]
           /\ feedback' = showFeedback(feedback, "Jumped to " \o formatTime(position), "info")
           /\ lastCommit' = [valid |-> TRUE, value |-> seekSlider.value,
                             position |-> position,
                             repeat |-> (lastCommit.valid
                                           /\ lastCommit.value = seekSlider.value)]
    /\ state' = [state EXCEPT !.isSeeking = FALSE]
    /\ dragging' = FALSE
    /\ lastOp' = Op("seekSliderChange", 0)
    /\ UNCHANGED <<icons, volumeSlider, seekSlider, currentTimeEl, progressBar,
                   seekDebounce, durationEl, tasks, playPromise,
                   speedControl, page>>

\* a plausible slip: the commit seeks relative to the current position
SeekSliderChange_relative ==
    /\ dragging
    /\ LET position == Min(DurationOrZero * 100,
                           audio.currentTime + PendingPosition(seekSlider.value))
       IN  /\ audio' = [audio EXCEPT !.currentTime = position]
           /\ feedback' = showFeedback(feedback, "Jumped to " \o formatTime(position), "info")
           /\ lastCommit' = [valid |-> TRUE, value |-> seekSlider.value,
                             position |-> position,
                             repeat |-> (lastCommit.valid
                                           /\ lastCommit.value = seekSlider.value)]
    /\ state' = [state EXCEPT !.isSeeking = FALSE]
    /\ dragging' = FALSE
    /\ lastOp' = Op("seekSliderChange", 0)
    /\ UNCHANGED <<icons, volumeSlider, seekSlider, currentTimeEl, progressBar,
                   seekDebounce, durationEl, tasks, playPromise,
                   speedControl, page>>

\* seekSlider 'change' event, the user releasing the slider (audio-player.ts:311-318)
SeekSliderChange ==
    /\ dragging
    /\ LET position == PendingPosition(seekSlider.value)
       IN  /\ audio' = [audio EXCEPT !.currentTime = position]
           /\ feedback' = showFeedback(feedback, "Jumped to " \o formatTime(position), "info")
           /\ lastCommit' = [valid |-> TRUE, value |-> seekSlider.value,
                             position |-> position,
                             repeat |-> (lastCommit.valid
                                           /\ lastCommit.value = seekSlider.value)]
    /\ state' = [state EXCEPT !.isSeeking = FALSE]
    /\ dragging' = FALSE
    /\ lastOp' = Op("seekSliderChange", 0)
    /\ UNCHANGED <<icons, volumeSlider, seekSlider, currentTimeEl, progressBar,
                   seekDebounce, durationEl, tasks, playPromise,
                   speedControl, page>>

(***************************************************************************)
(* Play and pause                                                          *)
(*                                                                         *)
(* The handle (HTMLMediaElement): play() on a paused handle clears paused  *)
(* at once and queues the 'play' event; pause() on a playing handle sets   *)
(* paused at once and queues a task that fires 'pause' and rejects the     *)
(* play promises pending at the call.  play() is rejected at once, with    *)
(* nothing changed, when the page may not play (autoplay policy) or the    *)
(* source has already failed.  A source that fails while a play promise    *)
(* is pending rejects it and leaves paused as it is.                       *)
(***************************************************************************)
\* updatePlayPauseIcon (audio-player.ts:176-187), from the handle's paused flag
updatePlayPauseIcon(paused) ==
    [isPlaying |-> ~paused, playIconHidden |-> ~paused, pauseIconHidden |-> paused]

ApplyPlayPauseIcon(r) ==
    icons' = [icons EXCEPT !.playIcon = r.playIconHidden, !.pauseIcon = r.pauseIconHidden]

EndPosition == DurationOrZero * 100

AtEnd == audio.duration # NaN /\ audio.currentTime = EndPosition

\* whether play() returns an already rejected promise
PlayRejectedAtOnce(allowed) == ~allowed \/ audio.error = "src"

\* a plausible slip: the icon is refreshed from the paused flag as it was before the
\* command, not after it
togglePlayPause_refreshFirst(opName, allowed, viaKey) ==
    /\ Len(tasks) < MaxTasks
    /\ IF audio.paused
       THEN IF PlayRejectedAtOnce(allowed)
            THEN LET r == updatePlayPauseIcon(audio.paused)
                     fb == IF viaKey THEN showFeedback(feedback, "Paused", "info")
                                     ELSE feedback
                 IN  /\ ApplyPlayPauseIcon(r)
                     /\ state' = [state EXCEPT !.isPlaying = r.isPlaying]
                     /\ feedback' = showFeedback(fb, "Playback failed", "error")
                     /\ lastOp' = Op(opName, 1)
                     /\ UNCHANGED <<audio, tasks, playPromise>>
            ELSE LET r == updatePlayPauseIcon(audio.paused)
                 IN  /\ audio' = [audio EXCEPT !.paused = FALSE,
                                               !.currentTime = IF AtEnd THEN 0 ELSE @]
                     /\ tasks' = Append(tasks, [type |-> "play", rejects |-> FALSE])
                     /\ playPromise' = "pending"
                     /\ ApplyPlayPauseIcon(r)
                     /\ state' = [state EXCEPT !.isPlaying = r.isPlaying]
                     /\ feedback' = IF viaKey THEN showFeedback(feedback, "Playing", "info")
                                              ELSE feedback
                     /\ lastOp' = Op(opName, 0)
       ELSE LET r == updatePlayPauseIcon(audio.paused)
            IN  /\ audio' = [audio EXCEPT !.paused = TRUE]
                /\ tasks' = Append(tasks, [type |-> "pause",
                                           rejects |-> (playPromise = "pending")])
                /\ playPromise' = "none"
                /\ ApplyPlayPauseIcon(r)
                /\ state' = [state EXCEPT !.isPlaying = r.isPlaying]
                /\ feedback' = IF viaKey THEN showFeedback(feedback, "Paused", "info")
                                         ELSE feedback
                /\ lastOp' = Op(opName, 0)
    /\ lastCommit' = IF audio.paused /\ ~PlayRejectedAtOnce(allowed) /\ AtEnd
                     THEN [lastCommit EXCEPT !.valid = FALSE] ELSE lastCommit
    /\ speedControl' = IF viaKey THEN speedControl ELSE closeSpeedMenu
    /\ UNCHANGED <<volumeSlider, seekSlider, currentTimeEl, progressBar, seekDebounce,
                   durationEl, dragging, page>>

\* a plausible slip: the catch callback of a play request rejected at once taken to run
\* inside togglePlayPause, before the toast of the key press
togglePlayPause_catchFirst(opName, allowed, viaKey) ==
    /\ Len(tasks) < MaxTasks
    /\ IF audio.paused
       THEN IF PlayRejectedAtOnce(allowed)
            THEN LET r == updatePlayPauseIcon(audio.paused)
                     fb == showFeedback(feedback, "Playback failed", "error")
                 IN  /\ ApplyPlayPauseIcon(r)
                     /\ state' = [state EXCEPT !.isPlaying = r.isPlaying]
                     /\ feedback' = IF viaKey THEN showFeedback(fb, "Paused", "info")
                                              ELSE fb
                     /\ lastOp' = Op(opName, 1)
                     /\ UNCHANGED <<audio, tasks, playPromise>>
            ELSE LET r == updatePlayPauseIcon(FALSE)
                 IN  /\ audio' = [audio EXCEPT !.paused = FALSE,
                                               !.currentTime = IF AtEnd THEN 0 ELSE @]
                     /\ tasks' = Append(tasks, [type |-> "play", rejects |-> FALSE])
                     /\ playPromise' = "pending"
                     /\ ApplyPlayPauseIcon(r)
                     /\ state' = [state EXCEPT !.isPlaying = r.isPlaying]
                     /\ feedback' = IF viaKey THEN showFeedback(feedback, "Playing", "info")
                                              ELSE feedback
                     /\ lastOp' = Op(opName, 0)
       ELSE LET r == updatePlayPauseIcon(TRUE)
            IN  /\ audio' = [audio EXCEPT !.paused = TRUE]
                /\ tasks' = Append(tasks, [type |-> "pause",
                                           rejects |-> (playPromise = "pending")])
                /\ playPromise' = "none"
                /\ ApplyPlayPauseIcon(r)
                /\ state' = [state EXCEPT !.isPlaying = r.isPlaying]
                /\ feedback' = IF viaKey THEN showFeedback(feedback, "Paused", "info")
                                         ELSE feedback
                /\ lastOp' = Op(opName, 0)
    /\ lastCommit' = IF audio.paused /\ ~PlayRejectedAtOnce(allowed) /\ AtEnd
                     THEN [lastCommit EXCEPT !.valid = FALSE] ELSE lastCommit
    /\ speedControl' = IF viaKey THEN speedControl ELSE closeSpeedMenu
    /\ UNCHANGED <<volumeSlider, seekSlider, currentTimeEl, progressBar, seekDebounce,
                   durationEl, dragging, page>>

\* togglePlayPause (audio-player.ts:158-174), then the toast of the Space key if viaKey
\* (audio-player.ts:412-416) or else the document 'click' listener the button's click
\* bubbles to, then the catch callback if the promise is already rejected
togglePlayPause(opName, allowed, viaKey) ==
    /\ Len(tasks) < MaxTasks
    /\ IF audio.paused
       THEN IF PlayRejectedAtOnce(allowed)
            THEN LET r == updatePlayPauseIcon(audio.paused)
                     fb == IF viaKey THEN showFeedback(feedback, "Paused", "info")
                                     ELSE feedback
                 IN  /\ ApplyPlayPauseIcon(r)
                     /\ state' = [state EXCEPT !.isPlaying = r.isPlaying]
                     /\ feedback' = showFeedback(fb, "Playback failed", "error")
                     /\ lastOp' = Op(opName, 1)
                     /\ UNCHANGED <<audio, tasks, playPromise>>
            ELSE LET r == updatePlayPauseIcon(FALSE)
                 IN  /\ audio' = [audio EXCEPT !.paused = FALSE,
                                               !.currentTime = IF AtEnd THEN 0 ELSE @]
                     /\ tasks' = Append(tasks, [type |-> "play", rejects |-> FALSE])
                     /\ playPromise' = "pending"
                     /\ ApplyPlayPauseIcon(r)
                     /\ state' = [state EXCEPT !.isPlaying = r.isPlaying]
                     /\ feedback' = IF viaKey THEN showFeedback(feedback, "Playing", "info")
                                              ELSE feedback
                     /\ lastOp' = Op(opName, 0)
       ELSE LET r == updatePlayPauseIcon(TRUE)
            IN  /\ audio' = [audio EXCEPT !.paused = TRUE]
                /\ tasks' = Append(tasks, [type |-> "pause",
                                           rejects |-> (playPromise = "pending")])
                /\ playPromise' = "none"
                /\ ApplyPlayPauseIcon(r)
                /\ state' = [state EXCEPT !.isPlaying = r.isPlaying]
                /\ feedback' = IF viaKey THEN showFeedback(feedback, "Paused", "info")
                                         ELSE feedback
                /\ lastOp' = Op(opName, 0)
    /\ lastCommit' = IF audio.paused /\ ~PlayRejectedAtOnce(allowed) /\ AtEnd
                     THEN [lastCommit EXCEPT !.valid = FALSE] ELSE lastCommit
    /\ speedControl' = IF viaKey THEN speedControl ELSE closeSpeedMenu
    /\ UNCHANGED <<volumeSlider, seekSlider, currentTimeEl, progressBar, seekDebounce,
                   durationEl, dragging, page>>

\* playPauseBtn 'click' listener (audio-player.ts:271)
PlayPauseClick(allowed) == togglePlayPause("playPauseClick", allowed, FALSE)

\* keydown ' ' (audio-player.ts:412-416)
KeySpace(allowed) == togglePlayPause("keySpace", allowed, TRUE)

\* window.audioPlayer.play (audio-player.ts:512): the promise is the caller's
ExternalPlay(allowed) ==
    /\ Len(tasks) < MaxTasks
    /\ audio.paused
    /\ ~PlayRejectedAtOnce(allowed)
    /\ audio' = [audio EXCEPT !.paused = FALSE, !.currentTime = IF AtEnd THEN 0 ELSE @]
    /\ tasks' = Append(tasks, [type |-> "play", rejects |-> FALSE])
    /\ lastCommit' = IF AtEnd THEN [lastCommit EXCEPT !.valid = FALSE] ELSE lastCommit
    /\ lastOp' = Op("externalPlay", 0)
    /\ UNCHANGED <<state, icons, volumeSlider, seekSlider, currentTimeEl, progressBar,
                   feedback, seekDebounce, durationEl, playPromise, dragging,
                   speedControl, page>>

\* window.audioPlayer.pause (audio-player.ts:513)
ExternalPause ==
    /\ Len(tasks) < MaxTasks
    /\ ~audio.paused
    /\ audio' = [audio EXCEPT !.paused = TRUE]
    /\ tasks' = Append(tasks, [type |-> "pause", rejects |-> (playPromise = "pending")])
    /\ playPromise' = "none"
    /\ lastOp' = Op("externalPause", 0)
    /\ UNCHANGED <<state, icons, volumeSlider, seekSlider, currentTimeEl, progressBar,
                   feedback, seekDebounce, durationEl, dragging, lastCommit,
                   speedControl, page>>

\* playback starts: the handle resolves the pending play promise (no callback is attached)
PlayResolved ==
    /\ playPromise = "pending"
    /\ ~audio.paused
    /\ audio.error = "none"
    /\ audio.duration # NaN
    /\ playPromise' = "none"
    /\ lastOp' = Op("playResolved", 0)
    /\ UNCHANGED <<audio, state, icons, volumeSlider, seekSlider, currentTimeEl,
                   progressBar, feedback, seekDebounce, durationEl, tasks, dragging,
                   lastCommit,
                   speedControl, page>>

\* the handle plays on by step hundredths of a second; at the end it queues the end task
Advance(step) ==
    /\ ~audio.paused
    /\ audio.error = "none"
    /\ audio.duration # NaN
    /\ playPromise = "none"
    /\ audio.currentTime < EndPosition
    /\ Len(tasks) < MaxTasks
    /\ LET position == Min(EndPosition, audio.currentTime + step)
       IN  /\ audio' = [audio EXCEPT !.currentTime = position]
           /\ tasks' = IF position = EndPosition
                       THEN Append(tasks, [type |-> "ended", rejects |-> FALSE])
                       ELSE tasks
    /\ lastCommit' = [lastCommit EXCEPT !.valid = FALSE]
    /\ lastOp' = Op("advance", step)
    /\ UNCHANGED <<state, icons, volumeSlider, seekSlider, currentTimeEl, progressBar,
                   feedback, seekDebounce, durationEl, playPromise, dragging,
                   speedControl, page>>

\* a plausible slip: no listener for the handle's 'pause' event
RunPauseTask_noListener ==
    /\ tasks # <<>>
    /\ Head(tasks).type = "pause"
    /\ tasks' = Tail(tasks)
    /\ ApplyProgress(updateProgress)
    /\ feedback' = IF Head(tasks).rejects
                   THEN showFeedback(feedback, "Playback failed", "error")
                   ELSE feedback
    /\ lastOp' = Op("pauseEvent", IF Head(tasks).rejects THEN 1 ELSE 0)
    /\ UNCHANGED <<audio, state, icons, volumeSlider, seekDebounce, durationEl,
                   playPromise, dragging, lastCommit,
                   speedControl, page>>

\* the task pause() queued runs: 'timeupdate' (274), 'pause' (273), then the promises
\* pending at the pause() call are rejected and the catch callback (163-166) runs
RunPauseTask ==
    /\ tasks # <<>>
    /\ Head(tasks).type = "pause"
    /\ tasks' = Tail(tasks)
    /\ ApplyProgress(updateProgress)
    /\ LET r == updatePlayPauseIcon(audio.paused)
       IN  /\ ApplyPlayPauseIcon(r)
           /\ state' = [state EXCEPT !.isPlaying = r.isPlaying]
    /\ feedback' = IF Head(tasks).rejects
                   THEN showFeedback(feedback, "Playback failed", "error")
                   ELSE feedback
    /\ lastOp' = Op("pauseEvent", IF Head(tasks).rejects THEN 1 ELSE 0)
    /\ UNCHANGED <<audio, volumeSlider, seekDebounce, durationEl, playPromise, dragging,
                   lastCommit,
                   speedControl, page>>

\* the handle's 'play' event (listener at audio-player.ts:272)
RunPlayTask ==
    /\ tasks # <<>>
    /\ Head(tasks).type = "play"
    /\ tasks' = Tail(tasks)
    /\ LET r == updatePlayPauseIcon(audio.paused)
       IN  /\ ApplyPlayPauseIcon(r)
           /\ state' = [state EXCEPT !.isPlaying = r.isPlaying]
    /\ lastOp' = Op("playEvent", 0)
    /\ UNCHANGED <<audio, volumeSlider, seekSlider, currentTimeEl, progressBar, feedback,
                   seekDebounce, durationEl, playPromise, dragging, lastCommit,
                   speedControl, page>>

\* the end-of-playback task: 'timeupdate'; if playback has ended and the handle is not
\* paused it is paused, 'pause' fires and pending play promises are rejected; then 'ended'
\* (audio-player.ts:276-279).  The catch callback (163-166) of a rejected promise is a
\* microtask: it runs once the 'ended' listener has returned
RunEndedTask ==
    /\ tasks # <<>>
    /\ Head(tasks).type = "ended"
    /\ tasks' = Tail(tasks)
    /\ ApplyProgress(updateProgress)
    /\ LET pauses == AtEnd /\ ~audio.paused
           rejects == pauses /\ playPromise = "pending"
           paused == IF pauses THEN TRUE ELSE audio.paused
           r == updatePlayPauseIcon(paused)
           fb == showFeedback(feedback, "Playback completed", "info")
       IN  /\ audio' = [audio EXCEPT !.paused = paused]
           /\ playPromise' = IF pauses THEN "none" ELSE playPromise
           /\ ApplyPlayPauseIcon(r)
           /\ state' = [state EXCEPT !.isPlaying = r.isPlaying]
           /\ feedback' = IF rejects THEN showFeedback(fb, "Playback failed", "error")
                          ELSE fb
           /\ lastOp' = Op("endedEvent", IF rejects THEN 1 ELSE 0)
    /\ UNCHANGED <<volumeSlider, seekDebounce, durationEl, dragging, lastCommit,
                   speedControl, page>>

\* the handle's 'error' event (audio-player.ts:293-297); a source failure (metadata never
\* loaded) also rejects the pending play promise, whose catch callback (163-166) runs next
MediaError ==
    /\ audio.error = "none"
    /\ LET src == audio.duration = NaN
           rejects == src /\ playPromise = "pending"
           fb == showFeedback(feedback, "Failed to load audio", "error")
       IN  /\ audio' = [audio EXCEPT !.error = IF src THEN "src" ELSE "decode"]
           /\ playPromise' = IF src THEN "none" ELSE playPromise
           /\ feedback' = IF rejects THEN showFeedback(fb, "Playback failed", "error")
                          ELSE fb
           /\ lastOp' = Op("errorEvent", IF rejects THEN 1 ELSE 0)
    /\ UNCHANGED <<state, icons, volumeSlider, seekSlider, currentTimeEl, progressBar,
                   seekDebounce, durationEl, tasks, dragging, lastCommit,
                   speedControl, page>>

(***************************************************************************)
(* The older variant of the controller (part_000): its togglePlayPause and *)
(* its listeners of the handle's 'play' and 'pause' events                 *)
(***************************************************************************)
\* updatePlayPauseIcon of the variant (part_000:97-106): the icons only
VariantUpdatePlayPauseIcon(paused) ==
    icons' = [icons EXCEPT !.playIcon = ~paused, !.pauseIcon = paused]

\* playPauseBtn 'click' listener of the variant, togglePlayPause (part_000:87-95): on a
\* paused handle play(), whose promise nothing handles; on a playing handle the statement
\* 'audioElement.paused;' reads the flag and commands nothing
VariantPlayPauseClick(allowed) ==
    /\ Len(tasks) < MaxTasks
    /\ IF audio.paused /\ ~PlayRejectedAtOnce(allowed)
       THEN /\ audio' = [audio EXCEPT !.paused = FALSE,
                                      !.currentTime = IF AtEnd THEN 0 ELSE @]
            /\ tasks' = Append(tasks, [type |-> "play", rejects |-> FALSE])
            /\ VariantUpdatePlayPauseIcon(FALSE)
       ELSE /\ VariantUpdatePlayPauseIcon(audio.paused)
            /\ UNCHANGED <<audio, tasks>>
    /\ lastOp' = Op("variantPlayPauseClick", 0)
    /\ UNCHANGED <<state, volumeSlider, seekSlider, currentTimeEl, progressBar, feedback,
                   seekDebounce, durationEl, playPromise, dragging, lastCommit,
                   speedControl, page>>

\* the handle's 'play' or 'pause' event in the variant (part_000:120-121)
VariantRunTask ==
    /\ tasks # <<>>
    /\ tasks' = Tail(tasks)
    /\ VariantUpdatePlayPauseIcon(audio.paused)
    /\ lastOp' = Op("variantPlayPauseEvent", 0)
    /\ UNCHANGED <<audio, state, volumeSlider, seekSlider, currentTimeEl, progressBar,
                   feedback, seekDebounce, durationEl, playPromise, dragging, lastCommit,
                   speedControl, page>>

(***************************************************************************)
(* Keyboard seeking (audio-player.ts:423-437, 462-476) and the external    *)
(* seekTo (audio-player.ts:515-517)                                        *)
(***************************************************************************)
\* the handle's task queue after a seek to position: a playing handle that is moved to its
\* end reaches the end of playback
SeekTasks(position) ==
    IF ~audio.paused /\ audio.duration # NaN /\ position = EndPosition
    THEN Append(tasks, [type |-> "ended", rejects |-> FALSE])
    ELSE tasks

\* audioElement.currentTime = position, then showFeedback(message)
SeekByKey(opName, position, message) ==
    /\ Len(SeekTasks(position)) <= MaxTasks
    /\ audio' = [audio EXCEPT !.currentTime = position]
    /\ tasks' = SeekTasks(position)
    /\ feedback' = showFeedback(feedback, message, "info")
    /\ lastCommit' = [lastCommit EXCEPT !.valid = FALSE]
    /\ lastOp' = Op(opName, audio.currentTime)
    /\ UNCHANGED <<state, icons, volumeSlider, seekSlider, currentTimeEl, progressBar,
                   seekDebounce, durationEl, playPromise, dragging, speedControl, page>>

\* keydown 'j' (audio-player.ts:423-429)
KeyJ ==
    LET position == Max(0, audio.currentTime - SEEK_JUMP * 100)
    IN  SeekByKey("keyJ", position,
                  "-" \o NatToString(SEEK_JUMP) \o "s (" \o formatTime(position) \o ")")

\* a plausible slip: the forward jump is not bounded by the duration
KeyK_unclamped ==
    LET position == audio.currentTime + SEEK_JUMP * 100
    IN  SeekByKey("keyK", position,
                  "+" \o NatToString(SEEK_JUMP) \o "s (" \o formatTime(position) \o ")")

\* a plausible slip: the forward jump bounded by the duration itself, without the '|| 0'
\* fallback (as in the older variant, part_000:227-233): not a number while it is unknown
KeyK_noFallback ==
    LET position == IF audio.duration = NaN THEN NaN
                    ELSE Min(audio.duration * 100, audio.currentTime + SEEK_JUMP * 100)
    IN  SeekByKey("keyK", position,
                  "+" \o NatToString(SEEK_JUMP) \o "s (" \o formatTime(position) \o ")")

\* keydown 'k' (audio-player.ts:431-437)
KeyK ==
    LET position == Min(DurationOrZero * 100, audio.currentTime + SEEK_JUMP * 100)
    IN  SeekByKey("keyK", position,
                  "+" \o NatToString(SEEK_JUMP) \o "s (" \o formatTime(position) \o ")")

\* keydown 'home' (audio-player.ts:462-468)
KeyHome == SeekByKey("keyHome", 0, "Start")

\* keydown 'end' (audio-player.ts:470-476)
KeyEnd ==
    IF audio.duration # NaN
    THEN SeekByKey("keyEnd", audio.duration * 100, "End")
    ELSE /\ lastOp' = Op("keyEnd", audio.currentTime)
         /\ UNCHANGED <<audio, state, icons, volumeSlider, seekSlider, currentTimeEl,
                        progressBar, feedback, seekDebounce, durationEl, tasks, playPromise,
                        dragging, lastCommit, speedControl, page>>

\* window.audioPlayer.seekTo(time) (audio-player.ts:515-517), time in hundredths of a
\* second, within the media when its duration is known
ExternalSeekTo(time) ==
    /\ audio.duration # NaN => time <= EndPosition
    /\ Len(SeekTasks(time)) <= MaxTasks
    /\ audio' = [audio EXCEPT !.currentTime = time]
    /\ tasks' = SeekTasks(time)
    /\ lastCommit' = [lastCommit EXCEPT !.valid = FALSE]
    /\ lastOp' = Op("externalSeekTo", time)
    /\ UNCHANGED <<state, icons, volumeSlider, seekSlider, currentTimeEl, progressBar,
                   feedback, seekDebounce, durationEl, playPromise, dragging, speedControl,
                   page>>

(***************************************************************************)
(* Playback speed (audio-player.ts:56, 58-98, 207-235, 341-365)            *)
(*                                                                         *)
(* Rates are integers in hundredths (1.25 is 125).  The speed control is   *)
(* the one createSpeedControl builds: one option per supported speed, in   *)
(* the order of SUPPORTED_SPEEDS, each carrying its speed as the text of   *)
(* its data-speed attribute.  Texts are compared after trimming the white  *)
(* space of the markup.                                                    *)
(***************************************************************************)
\* Array.prototype.includes
Includes(seq, x) == \E i \in 1..Len(seq) : seq[i] = x

RECURSIVE NatToChars(_)
\* the decimal digits of a non-negative integer, one character each
NatToChars(n) ==
    IF n < 10 THEN <<Digits[n + 1]>>
    ELSE Append(NatToChars(n \div 10), Digits[(n % 10) + 1])

\* `${speed}`: Number.prototype.toString() of a rate, as characters (0.5, 0.75, 1, 1.25 ...)
RateToChars(rate) ==
    LET frac == rate % 100
    IN  NatToChars(rate \div 100) \o
        ( IF frac = 0 THEN <<>>
          ELSE IF frac % 10 = 0 THEN <<".", Digits[(frac \div 10) + 1]>>
          ELSE <<".", Digits[(frac \div 10) + 1], Digits[(frac % 10) + 1]>> )

RECURSIVE Join(_)
\* the string of a sequence of characters
Join(chars) == IF chars = <<>> THEN "" ELSE Head(chars) \o Join(Tail(chars))

DigitValue(c) == CHOOSE d \in 0..9 : Digits[d + 1] = c

IsDigit(c) == \E d \in 0..9 : Digits[d + 1] = c

RECURSIVE DigitsValue(_)
\* the number a sequence of digits denotes
DigitsValue(chars) ==
    IF chars = <<>> THEN 0
    ELSE DigitsValue(SubSeq(chars, 1, Len(chars) - 1)) * 10 + DigitValue(chars[Len(chars)])

\* parseFloat of a decimal text, in hundredths: the longest prefix of the form
\* digits[.digits], NaN if there is none
parseFloat(chars) ==
    LET intLen == CHOOSE k \in 0..Len(chars) :
                      /\ \A i \in 1..k : IsDigit(chars[i])
                      /\ (k < Len(chars) => ~IsDigit(chars[k + 1]))
        hasFrac == intLen < Len(chars) /\ chars[intLen + 1] = "."
        rest == IF hasFrac THEN SubSeq(chars, intLen + 2, Len(chars)) ELSE <<>>
        fracLen == CHOOSE k \in 0..Len(rest) :
                       /\ \A i \in 1..k : IsDigit(rest[i])
                       /\ (k < Len(rest) => ~IsDigit(rest[k + 1]))
        tenths == IF fracLen >= 1 THEN DigitValue(rest[1]) ELSE 0
        hundredths == IF fracLen >= 2 THEN DigitValue(rest[2]) ELSE 0
    IN  IF intLen = 0 /\ fracLen = 0 THEN NaN
        ELSE DigitsValue(SubSeq(chars, 1, intLen)) * 100 + tenths * 10 + hundredths

\* the data-speed attribute of the i-th option (audio-player.ts:78)
DataSpeed(i) == RateToChars(SUPPORTED_SPEEDS[i])

\* the speed control as createSpeedControl builds it (audio-player.ts:59-89)
createSpeedControl ==
    [text |-> "1x", expanded |-> FALSE, menuHidden |-> TRUE,
     checked |-> [i \in 1..Len(SUPPORTED_SPEEDS) |-> SUPPORTED_SPEEDS[i] = 100]]

\* a plausible slip: any rate is accepted (the guard of line 208 left out)
setPlaybackSpeed_anyRate(speed) ==
    /\ audio' = [audio EXCEPT !.playbackRate = speed]
    /\ state' = [state EXCEPT !.playbackRate = speed]
    /\ speedControl' =
         [text |-> Join(RateToChars(speed)) \o "x",
          checked |-> [i \in 1..Len(SUPPORTED_SPEEDS) |-> parseFloat(DataSpeed(i)) = speed],
          menuHidden |-> TRUE, expanded |-> FALSE]
    /\ feedback' = showFeedback(feedback, "Speed: " \o Join(RateToChars(speed)) \o "x", "info")

\* a plausible slip: the chosen option is checked, the others are left as they were
setPlaybackSpeed_othersKept(speed) ==
    IF ~Includes(SUPPORTED_SPEEDS, speed)
    THEN UNCHANGED <<audio, state, speedControl, feedback>>
    ELSE /\ audio' = [audio EXCEPT !.playbackRate = speed]
         /\ state' = [state EXCEPT !.playbackRate = speed]
         /\ speedControl' =
              [text |-> Join(RateToChars(speed)) \o "x",
               checked |-> [i \in 1..Len(SUPPORTED_SPEEDS) |->
                               speedControl.checked[i] \/ parseFloat(DataSpeed(i)) = speed],
               menuHidden |-> TRUE, expanded |-> FALSE]
         /\ feedback' = showFeedback(feedback,
                                     "Speed: " \o Join(RateToChars(speed)) \o "x", "info")

\* setPlaybackSpeed (audio-player.ts:207-235): its writes to the handle, PlayerState, the
\* speed control and the toast
setPlaybackSpeed(speed) ==
    IF ~Includes(SUPPORTED_SPEEDS, speed)
    THEN UNCHANGED <<audio, state, speedControl, feedback>>
    ELSE /\ audio' = [audio EXCEPT !.playbackRate = speed]
         /\ state' = [state EXCEPT !.playbackRate = speed]
         /\ speedControl' =
              [text |-> Join(RateToChars(speed)) \o "x",
               checked |-> [i \in 1..Len(SUPPORTED_SPEEDS) |->
                               parseFloat(DataSpeed(i)) = speed],
               menuHidden |-> TRUE, expanded |-> FALSE]
         /\ feedback' = showFeedback(feedback,
                                     "Speed: " \o Join(RateToChars(speed)) \o "x", "info")

\* document 'click' listener, the target being the i-th speed option (audio-player.ts:350-356)
SpeedOptionClick(i) ==
    /\ setPlaybackSpeed(parseFloat(DataSpeed(i)))
    /\ lastOp' = Op("speedOptionClick", SUPPORTED_SPEEDS[i])
    /\ UNCHANGED <<icons, volumeSlider, seekSlider, currentTimeEl, progressBar,
                   seekDebounce, durationEl, tasks, playPromise, dragging, lastCommit, page>>

\* window.audioPlayer.setSpeed(speed) (audio-player.ts:514)
ExternalSetSpeed(speed) ==
    /\ setPlaybackSpeed(speed)
    /\ lastOp' = Op("externalSetSpeed", speed)
    /\ UNCHANGED <<icons, volumeSlider, seekSlider, currentTimeEl, progressBar,
                   seekDebounce, durationEl, tasks, playPromise, dragging, lastCommit, page>>

\* speedButton 'click' listener (audio-player.ts:341-347); it stops the propagation, so
\* the document listener does not run.  opName tells the click from the 'l' key
toggleSpeedMenu(opName) ==
    /\ LET isExpanded == ~speedControl.menuHidden
       IN  speedControl' = [speedControl EXCEPT !.menuHidden = isExpanded,
                                                 !.expanded = ~isExpanded]
    /\ lastOp' = Op(opName, 0)
    /\ UNCHANGED <<audio, state, icons, volumeSlider, seekSlider, currentTimeEl,
                   progressBar, feedback, seekDebounce, durationEl, tasks, playPromise,
                   dragging, lastCommit, page>>

SpeedButtonClick == toggleSpeedMenu("speedButtonClick")

\* keydown 'l' (audio-player.ts:439-442): speedButton.click()
KeyL == toggleSpeedMenu("keyL")

\* a click somewhere else on the page, on no control of the player
DocumentClick ==
    /\ speedControl' = closeSpeedMenu
    /\ lastOp' = Op("documentClick", 0)
    /\ UNCHANGED <<audio, state, icons, volumeSlider, seekSlider, currentTimeEl,
                   progressBar, feedback, seekDebounce, durationEl, tasks, playPromise,
                   dragging, lastCommit, page>>

(***************************************************************************)
(* The keydown listener of the shortcuts (audio-player.ts:398-478)         *)
(*                                                                         *)
(* target is the element the key event is dispatched to: its tagName, its  *)
(* isContentEditable, and whether it has an ancestor-or-self with          *)
(* role="textbox"; hasFocus is document.hasFocus().                        *)
(***************************************************************************)
\* a plausible slip: only the tag names are tested (as in the older variant of the
\* controller, part_000:206-211)
shortcutsSuppressed_tagsOnly(target, hasFocus) ==
    \/ target.tagName = "INPUT"
    \/ target.tagName = "TEXTAREA"

\* the guards of audio-player.ts:401-409
shortcutsSuppressed(target, hasFocus) ==
    \/ target.tagName = "INPUT"
    \/ target.tagName = "TEXTAREA"
    \/ target.isContentEditable
    \/ target.inTextbox
    \/ ~hasFocus

\* the listener, for a key of the switch at audio-player.ts:410-477
KeyDown(key, target, hasFocus) ==
    IF shortcutsSuppressed(target, hasFocus)
    THEN /\ lastOp' = Op("keydownIgnored", 0)
         /\ UNCHANGED <<audio, state, icons, volumeSlider, seekSlider, currentTimeEl,
                        progressBar, feedback, seekDebounce, durationEl, tasks, playPromise,
                        dragging, lastCommit, speedControl, page>>
    ELSE \/ key = " " /\ \E allowed \in BOOLEAN : KeySpace(allowed)
         \/ key = "m" /\ KeyM
         \/ key = "j" /\ KeyJ
         \/ key = "k" /\ KeyK
         \/ key = "l" /\ KeyL
         \/ key = "arrowup" /\ KeyArrowUp
         \/ key = "arrowdown" /\ KeyArrowDown
         \/ key = "home" /\ KeyHome
         \/ key = "end" /\ KeyEnd

(***************************************************************************)
(* Initial state: the DOMContentLoaded callback has run to its end         *)
(* (audio-player.ts:44-51 and initialize, 481-505).  The volume slider's   *)
(* markup value v0 and the seek slider's disabled attribute come from the  *)
(* page.                                                                   *)
(***************************************************************************)
Initialized ==
    \E v0 \in SliderVolumes, dis \in BOOLEAN :
        LET r == updateVolume(v0)
        IN  /\ audio = [paused |-> TRUE, currentTime |-> 0, duration |-> NaN,
                        volume |-> r.volume, muted |-> r.isMuted, error |-> "none",
                        playbackRate |-> 100]
            /\ state = [isPlaying |-> FALSE, isMuted |-> r.isMuted, volume |-> r.volume,
                        playbackRate |-> 100, isSeeking |-> FALSE,
                        lastVolume |-> DEFAULT_LAST_VOLUME]
            /\ icons = [playIcon |-> FALSE, pauseIcon |-> TRUE,
                        volumeIcon |-> r.volumeIconHidden, muteIcon |-> r.muteIconHidden]
            /\ volumeSlider = r.sliderValue
            /\ seekSlider = [value |-> [n |-> 0, d |-> 1], disabled |-> dis]
            /\ currentTimeEl = "00:00"
            /\ progressBar = [n |-> 0, d |-> 1]
            /\ feedback = [text |-> "", type |-> "info", opacity |-> 0,
                           timeout |-> 0, pending |-> {}]
            /\ seekDebounce = [timeoutId |-> 0, pending |-> {}]
            /\ durationEl = ""
            /\ tasks = <<>>
            /\ playPromise = "none"
            /\ dragging = FALSE
            /\ lastOp = [name |-> "initialize", arg |-> v0, prev |-> "",
                         preVolume |-> v0, preUnmuted |-> FALSE]
            /\ lastCommit = [valid |-> FALSE, value |-> [n |-> 0, d |-> 1], position |-> 0,
                             repeat |-> FALSE]
            /\ speedControl = createSpeedControl

\* a plausible slip: only the container is required (as in the older variant of the
\* controller, part_000:3-4)
Attaches_containerOnly(present) == "container" \in present

\* whether the script gets past its two early returns (audio-player.ts:4-7, 29-32)
Attaches(present) ==
    /\ "container" \in present
    /\ "audioElement" \in present /\ "playPauseBtn" \in present

\* the page after the script returned early: no PlayerState exists (the record is a
\* placeholder), no element was written, no timer started, the handle is as created
NotAttached ==
    /\ audio = [paused |-> TRUE, currentTime |-> 0, duration |-> NaN,
                volume |-> 100, muted |-> FALSE, error |-> "none", playbackRate |-> 100]
    /\ state = [isPlaying |-> FALSE, isMuted |-> FALSE, volume |-> 0,
                playbackRate |-> 0, isSeeking |-> FALSE, lastVolume |-> 0]
    /\ icons = [playIcon |-> FALSE, pauseIcon |-> TRUE,
                volumeIcon |-> FALSE, muteIcon |-> TRUE]
    /\ volumeSlider = DEFAULT_LAST_VOLUME
    /\ seekSlider = [value |-> [n |-> 0, d |-> 1], disabled |-> TRUE]
    /\ currentTimeEl = "00:00"
    /\ progressBar = [n |-> 0, d |-> 1]
    /\ feedback = [text |-> "", type |-> "info", opacity |-> 0,
                   timeout |-> 0, pending |-> {}]
    /\ seekDebounce = [timeoutId |-> 0, pending |-> {}]
    /\ durationEl = ""
    /\ tasks = <<>>
    /\ playPromise = "none"
    /\ dragging = FALSE
    /\ lastOp = [name |-> "notAttached", arg |-> 0, prev |-> "",
                 preVolume |-> 0, preUnmuted |-> FALSE]
    /\ lastCommit = [valid |-> FALSE, value |-> [n |-> 0, d |-> 1], position |-> 0,
                     repeat |-> FALSE]
    /\ speedControl = createSpeedControl

\* the script has run on a page that has all the elements it requires, and has exposed
\* window.audioPlayer (audio-player.ts:511-518)
Init ==
    /\ Initialized
    /\ page = [present |-> RequiredElements, exposed |-> TRUE, variant |-> FALSE]

\* the script has run on a page that has any of the elements it requires
InitPage ==
    \E present \in SUBSET RequiredElements :
        /\ page = [present |-> present, exposed |-> Attaches(present), variant |-> FALSE]
        /\ IF Attaches(present)
           THEN Initialized /\ volumeSlider = DEFAULT_LAST_VOLUME
           ELSE NotAttached

\* the page loads either implementation of the controller: the script of
\* src/scripts/audio-player.ts, or its older variant (part_000), which exposes no
\* window.audioPlayer and keeps no PlayerState
InitEither ==
    \E variant \in BOOLEAN :
        /\ Initialized
        /\ volumeSlider = DEFAULT_LAST_VOLUME
        /\ page = [present |-> RequiredElements, exposed |-> ~variant, variant |-> variant]

\* an event of the page or of the handle for which no listener is registered
UnhandledEvent ==
    /\ lastOp' = Op("unhandledEvent", 0)
    /\ UNCHANGED <<audio, state, icons, volumeSlider, seekSlider, currentTimeEl,
                   progressBar, feedback, seekDebounce, durationEl, tasks, playPromise,
                   dragging, lastCommit, speedControl, page>>

\* the initial states whose volume slider carries the fallback value of line 47
InitDefaultVolume == Init /\ volumeSlider = DEFAULT_LAST_VOLUME

(***************************************************************************)
(* Specifications                                                          *)
(***************************************************************************)
\* the volume controls: slider, mute button, 'm', ArrowUp, ArrowDown
NextVolume ==
    \/ \E v \in SliderVolumes : VolumeSliderInput(v)
    \/ MuteButtonClick
    \/ KeyM
    \/ KeyArrowUp
    \/ KeyArrowDown
    \/ FeedbackTimeout

SpecVolume == Init /\ [][NextVolume]_vars

\* updateVolume alone, over every requested volume
NextUpdateVolume == \E v \in RequestedVolumes : UpdateVolumeCall(v)

SpecUpdateVolume == Init /\ [][NextUpdateVolume]_vars

\* play and pause: the button, Space, the external surface, the handle's events
NextPlay ==
    \/ \E allowed \in BOOLEAN : PlayPauseClick(allowed)
    \/ \E allowed \in BOOLEAN : KeySpace(allowed)
    \/ \E allowed \in BOOLEAN : ExternalPlay(allowed)
    \/ ExternalPause
    \/ RunPlayTask
    \/ RunPauseTask
    \/ RunEndedTask
    \/ PlayResolved
    \/ \E d \in Durations : LoadedMetadata(d)
    \/ \E step \in AdvanceSteps : Advance(step)
    \/ MediaError
    \/ FeedbackTimeout

SpecPlay == InitDefaultVolume /\ [][NextPlay]_vars

\* the seek slider, with playback going on
NextSeek ==
    \/ \E v \in SeekValues : SeekSliderInput(v)
    \/ SeekInputCallback
    \/ SeekSliderChange
    \/ TimeUpdate
    \/ \E d \in Durations : LoadedMetadata(d)
    \/ PlayPauseClick(TRUE)
    \/ RunPlayTask
    \/ RunPauseTask
    \/ RunEndedTask
    \/ PlayResolved
    \/ \E step \in AdvanceSteps : Advance(step)
    \/ FeedbackTimeout

SpecSeek == InitDefaultVolume /\ [][NextSeek]_vars

\* the toast: the handlers that show it, the handle's buffering events, the hide timer
NextFeedback ==
    \/ Waiting
    \/ CanPlay
    \/ MediaError
    \/ KeyArrowUp
    \/ KeyArrowDown
    \/ \E i \in 1..Len(SUPPORTED_SPEEDS) : SpeedOptionClick(i)
    \/ FeedbackTimeout

SpecFeedback == InitDefaultVolume /\ [][NextFeedback]_vars

\* the speed control: its options, its button and 'l', the external surface, other clicks
NextSpeed ==
    \/ \E i \in 1..Len(SUPPORTED_SPEEDS) : SpeedOptionClick(i)
    \/ \E speed \in SpeedRequests : ExternalSetSpeed(speed)
    \/ SpeedButtonClick
    \/ KeyL
    \/ DocumentClick
    \/ FeedbackTimeout

SpecSpeed == InitDefaultVolume /\ [][NextSpeed]_vars

\* seeking by key: 'j', 'k', Home, End, from positions the external seekTo sets
NextKeySeek ==
    \/ KeyJ
    \/ KeyK
    \/ KeyHome
    \/ KeyEnd
    \/ \E time \in SeekToTimes : ExternalSeekTo(time)
    \/ \E d \in Durations : LoadedMetadata(d)
    \/ TimeUpdate
    \/ FeedbackTimeout

SpecKeySeek == InitDefaultVolume /\ [][NextKeySeek]_vars

\* the volume keys, from the volumes the slider sets
NextKeyVolume ==
    \/ KeyArrowUp
    \/ KeyArrowDown
    \/ \E v \in KeyStartVolumes : VolumeSliderInput(v)
    \/ FeedbackTimeout

SpecKeyVolume == Init /\ [][NextKeyVolume]_vars

\* the shortcuts: every key on every target, with and without focus, and the handle's
\* play and pause events
NextKeys ==
    \/ \E key \in ShortcutKeys, target \in KeyTargets, hasFocus \in BOOLEAN :
          /\ key \in {"arrowup", "arrowdown"}
               => ( /\ audio.volume <= DEFAULT_LAST_VOLUME + KeyVolumeWindow
                    /\ audio.volume >= DEFAULT_LAST_VOLUME - KeyVolumeWindow )
          /\ KeyDown(key, target, hasFocus)
    \/ RunPlayTask
    \/ RunPauseTask
    \/ FeedbackTimeout

SpecKeys == InitDefaultVolume /\ [][NextKeys]_vars

\* pages with and without the required elements: where the script attached, the play
\* controls and the handle's events; where it did not, events nothing listens to
NextPage ==
    \/ Attaches(page.present) /\ NextPlay
    \/ ~Attaches(page.present) /\ UnhandledEvent

SpecPage == InitPage /\ [][NextPage]_vars

\* play and pause in either implementation of the controller
NextEither ==
    \/ ~page.variant /\ NextPlay
    \/ page.variant /\ \E allowed \in BOOLEAN : VariantPlayPauseClick(allowed)
    \/ page.variant /\ VariantRunTask

SpecEither == InitEither /\ [][NextEither]_vars

\* the two kinds of timer: the seek slider's debounce and the toast's auto-hide
NextTimers ==
    \/ \E v \in SeekValues : SeekSliderInput(v)
    \/ SeekInputCallback
    \/ SeekSliderChange
    \/ \E d \in Durations : LoadedMetadata(d)
    \/ TimeUpdate
    \/ Waiting
    \/ CanPlay
    \/ FeedbackTimeout

SpecTimers == InitDefaultVolume /\ [][NextTimers]_vars

\* a source that fails to load or to decode, and the operations that follow: the seek
\* slider, the seek keys, the volume, the speed, the play/pause toggle (pressed when no
\* event of the handle is waiting)
NextError ==
    \/ MediaError
    \/ \E d \in ErrorDurations : LoadedMetadata(d)
    \/ \E v \in ErrorSeekValues : SeekSliderInput(v)
    \/ SeekInputCallback
    \/ SeekSliderChange
    \/ KeyJ
    \/ KeyK
    \/ KeyHome
    \/ KeyEnd
    \/ \E v \in ErrorVolumes : VolumeSliderInput(v)
    \/ \E i \in ErrorSpeeds : SpeedOptionClick(i)
    \/ \E allowed \in BOOLEAN : tasks = <<>> /\ KeySpace(allowed)
    \/ RunPlayTask
    \/ RunPauseTask
    \/ RunEndedTask

SpecError == InitDefaultVolume /\ [][NextError]_vars

\* Space and the ways the play request it issues is rejected: at once, by a pause, by the
\* end of the media, by a failure of the source
NextSpace ==
    \/ \E allowed \in BOOLEAN : KeySpace(allowed)
    \/ ExternalPause
    \/ RunPlayTask
    \/ RunPauseTask
    \/ RunEndedTask
    \/ PlayResolved
    \/ \E d \in ErrorDurations : LoadedMetadata(d)
    \/ KeyEnd
    \/ MediaError
    \/ Waiting
    \/ FeedbackTimeout

SpecSpace == InitDefaultVolume /\ [][NextSpace]_vars

(***************************************************************************)
(* Claims                                                                  *)
(***************************************************************************)
ToggleNames == {"muteButtonClick", "keyM"}

\* C1: in every state reachable through the volume controls, PlayerState has
\* state.isMuted = (state.volume = 0).
C1_MutedIffVolumeZero == state.isMuted = (state.volume = 0)

\* C2: toggleMute is an involution: from an unmuted player with volume v > 0, two
\* consecutive toggles (button or 'm') leave the handle unmuted with volume exactly v.
C2_ToggleMuteInvolution ==
    [][ ( /\ lastOp.name \in ToggleNames
          /\ lastOp.preUnmuted
          /\ lastOp.preVolume > 0
          /\ (MuteButtonClick \/ KeyM) )
        => ( /\ audio'.volume = lastOp.preVolume
             /\ ~audio'.muted
             /\ ~state'.isMuted ) ]_vars

\* C3: after the slider set a volume w > 0, moving the slider to 0 mutes the player (mute
\* icon shown, isMuted true) and a following mute-button click restores volume w with the
\* unmute (volume) icon shown.
C3_SliderZeroThenUnmuteRestores ==
    [][ ( /\ lastOp.name = "volumeSliderInput"
          /\ lastOp.arg = 0
          /\ lastOp.prev = "volumeSliderInput"
          /\ lastOp.preVolume > 0 )
        => ( /\ state.isMuted
             /\ audio.muted
             /\ ~icons.muteIcon
             /\ icons.volumeIcon
             /\ ( MuteButtonClick
                    => ( /\ audio'.volume = lastOp.preVolume
                         /\ ~icons'.volumeIcon
                         /\ icons'.muteIcon ) ) ) ]_vars

\* C4: updateVolume(v) writes clamp(v, 0, 1) to the handle, and the handle then reads
\* muted = (clamp(v) = 0); for v in [0,1], muted = (v = 0).
C4_UpdateVolumeClampsAndMutes ==
    lastOp.name = "updateVolume" =>
        LET v == lastOp.arg
            c == IF v < 0 THEN 0 ELSE IF v > 100 THEN 100 ELSE v
        IN  /\ audio.volume = c
            /\ audio.muted = (c = 0)
            /\ (v \in 0..100 => audio.muted = (v = 0))

\* C4 witness: a request below 0 was clamped to 0 and muted the handle
C4_Witness ==
    /\ lastOp.name = "updateVolume"
    /\ lastOp.arg < 0
    /\ audio.volume = 0
    /\ audio.muted

\* C5: isSeeking is true only while the user drags the seek slider: from a seek commit
\* until the next seek-slider input event it is false, whatever the order of the input
\* events, the commit and the debounce timer.
C5_SeekingOnlyWhileDragging == ~dragging => ~state.isSeeking

\* C6: dragging the seek slider (the input events and the debounced display update) never
\* writes the handle: with known duration D and slider fraction f the label becomes
\* formatTime(f*D) and the bar width f, and the handle is left as it was.
C6_DragNeverWritesHandle ==
    [][ /\ ( (\E v \in SeekValues : SeekSliderInput(v)) \/ SeekInputCallback )
            => audio' = audio
        /\ ( SeekInputCallback /\ audio.duration # NaN )
            => ( /\ progressBar' = seekSlider.value
                 /\ seekSlider' = seekSlider
                 /\ currentTimeEl' =
                      formatTime((seekSlider.value.n * audio.duration) \div seekSlider.value.d)
                 /\ ( audio.duration = 200 /\ seekSlider.value = [n |-> 50, d |-> 1] )
                      => currentTimeEl' = "01:40" ) ]_vars

\* C6 witness: duration 200 s, the slider dragged to 50%: the label shows 01:40 and the
\* handle is still at position 0
C6_Witness ==
    /\ lastOp.name = "seekInputCallback"
    /\ audio.duration = 200
    /\ seekSlider.value = [n |-> 50, d |-> 1]
    /\ currentTimeEl = "01:40"
    /\ progressBar = [n |-> 50, d |-> 1]
    /\ audio.currentTime = 0

\* C7: a seek commit with slider fraction f and known duration D sets the handle position
\* to f*D, clears isSeeking and shows the toast "Jumped to <mm:ss of f*D>".
C7_CommitSeeks ==
    ( lastOp.name = "seekSliderChange" /\ audio.duration # NaN ) =>
        /\ audio.currentTime * seekSlider.value.d = seekSlider.value.n * audio.duration
        /\ ~state.isSeeking
        /\ feedback.opacity = 1
        /\ feedback.text = "Jumped to " \o formatTime(audio.currentTime)
        /\ ( audio.duration = 200 /\ seekSlider.value = [n |-> 50, d |-> 1] )
             => ( audio.currentTime = 10000 /\ feedback.text = "Jumped to 01:40" )

\* C7 witness: duration 200 s, commit at 50%: position 100 s and "Jumped to 01:40"
C7_Witness ==
    /\ lastOp.name = "seekSliderChange"
    /\ audio.duration = 200
    /\ seekSlider.value = [n |-> 50, d |-> 1]
    /\ audio.currentTime = 10000
    /\ feedback.text = "Jumped to 01:40"
    /\ ~state.isSeeking

\* C8: seek commit is idempotent: a commit of the slider fraction of the previous commit,
\* with the duration unchanged and no playback progress in between, leaves the handle at
\* the position the previous commit left it at.
C8_CommitIdempotent ==
    [][ ( /\ SeekSliderChange
          /\ lastCommit.valid
          /\ lastCommit.value = seekSlider.value )
        => audio'.currentTime = lastCommit.position ]_vars

\* C8 witness: the same non-zero fraction committed twice, the position as after the first
C8_Witness ==
    /\ lastOp.name = "seekSliderChange"
    /\ lastCommit.repeat
    /\ lastCommit.position > 0
    /\ audio.currentTime = lastCommit.position

\* C9: whenever no play/pause/ended event of the handle waits to be delivered, the icon
\* and state.isPlaying show 'playing' exactly if the handle is not paused.
C9_IconReflectsHandle ==
    (\A i \in 1..Len(tasks) : tasks[i].type \notin {"play", "pause"}) =>
        /\ state.isPlaying = ~audio.paused
        /\ icons.pauseIcon = audio.paused
        /\ icons.playIcon = ~audio.paused

\* C9 witness: a pause was requested while the play promise was in flight; its event has
\* been delivered and the play icon is shown
C9_Witness ==
    /\ lastOp.name = "pauseEvent"
    /\ lastOp.arg = 1
    /\ tasks = <<>>
    /\ audio.paused
    /\ ~state.isPlaying
    /\ ~icons.playIcon

\* C10: when a play request is rejected, the catch callback shows the error toast
\* "Playback failed" and the playback state is left paused: state.isPlaying is false and
\* the play icon is displayed.
C10_RejectedPlayLeavesPaused ==
    ( lastOp.name \in {"playPauseClick", "keySpace", "pauseEvent", "errorEvent"}
      /\ lastOp.arg = 1 ) =>
        /\ feedback.text = "Playback failed"
        /\ feedback.type = "error"
        /\ ~state.isPlaying
        /\ ~icons.playIcon
        /\ icons.pauseIcon

\* C11: a new showFeedback call preempts the pending auto-hide: every pending hide timer is
\* the one the latest call started, and a visible toast is hidden only by that timer firing
\* or by 'canplay' while its text is "Buffering...".
C11_NewToastPreemptsHide ==
    [][ /\ feedback'.pending \subseteq {feedback'.timeout}
        /\ ( feedback.opacity = 1 /\ feedback'.opacity = 0 )
            => \/ /\ feedback.timeout \in feedback.pending
                  /\ feedback'.pending = feedback.pending \ {feedback.timeout}
                  /\ feedback'.text = feedback.text
               \/ /\ CanPlay
                  /\ feedback.text = "Buffering..." ]_vars

\* C11 witness: a volume toast replaced the buffering toast shown by the step before, and
\* the only pending hide timer is its own
C11_Witness ==
    /\ lastOp.name = "keyArrowDown"
    /\ lastOp.prev = "waiting"
    /\ feedback.text = "Volume: 45%"
    /\ feedback.opacity = 1
    /\ feedback.pending = {feedback.timeout}

\* the rates the claims call supported, in hundredths, and the indicator text of each
SupportedRates == {50, 75, 100, 125, 150, 175, 200}

IndicatorText(rate) ==
    CASE rate = 50 -> "0.5x" [] rate = 75 -> "0.75x" [] rate = 100 -> "1x"
      [] rate = 125 -> "1.25x" [] rate = 150 -> "1.5x" [] rate = 175 -> "1.75x"
      [] rate = 200 -> "2x" [] OTHER -> "?"

\* C12: setPlaybackSpeed(r) for a rate r outside the supported set is a no-op: the handle
\* (its playback rate), PlayerState (playbackRate), the speed indicator, the checked state of
\* every option, the menu's open/closed state and the toast are all left as they were.
C12_UnsupportedSpeedIsNoOp ==
    [][ \A r \in SpeedRequests \ SupportedRates :
            ExternalSetSpeed(r)
              => ( /\ audio' = audio
                   /\ state' = state
                   /\ speedControl' = speedControl
                   /\ feedback' = feedback ) ]_vars

\* C12 witness: setSpeed(3) arrived at rate 1.5 with the menu open: rate, indicator, checked
\* option and menu are as before
C12_Witness ==
    /\ lastOp.name = "externalSetSpeed"
    /\ lastOp.arg = 300
    /\ audio.playbackRate = 150
    /\ state.playbackRate = 150
    /\ speedControl.text = "1.5x"
    /\ speedControl.checked[5]
    /\ ~speedControl.menuHidden

\* C13: in every reachable state exactly one speed option is checked, it is the option
\* whose rate is the handle's playback rate, and the indicator reads "<rate>x"; after
\* setPlaybackSpeed(r) with r supported that rate is r.
C13_OneOptionChecked ==
    /\ Cardinality({i \in DOMAIN speedControl.checked : speedControl.checked[i]}) = 1
    /\ \A i \in DOMAIN speedControl.checked :
          speedControl.checked[i] = (SUPPORTED_SPEEDS[i] = audio.playbackRate)
    /\ audio.playbackRate \in SupportedRates
    /\ speedControl.text = IndicatorText(audio.playbackRate)
    /\ ( lastOp.name \in {"speedOptionClick", "externalSetSpeed"}
          /\ lastOp.arg \in SupportedRates )
        => audio.playbackRate = lastOp.arg

\* C13 witness: the option 1.75x was chosen: it is checked, the option 1x no longer is
C13_Witness ==
    /\ lastOp.name = "speedOptionClick"
    /\ lastOp.arg = 175
    /\ audio.playbackRate = 175
    /\ speedControl.text = "1.75x"
    /\ speedControl.checked[6]
    /\ ~speedControl.checked[3]
    /\ feedback.text = "Speed: 1.75x"

SeekKeyNames == {"keyJ", "keyK", "keyHome", "keyEnd"}

\* C14: keyboard seeking never writes a position outside [0, duration]: from position p,
\* 'j' writes max(0, p - 10), 'k' writes min(duration, p + 10), Home writes 0 and End writes
\* the duration; when the duration is unknown 'k' writes 0 and End writes nothing.
C14_KeySeekStaysInRange ==
    LET p == lastOp.arg
        known == audio.duration # NaN
        end == audio.duration * 100
    IN  /\ lastOp.name = "keyJ"
            => audio.currentTime = (IF p - 1000 < 0 THEN 0 ELSE p - 1000)
        /\ lastOp.name = "keyK"
            => audio.currentTime = (IF ~known THEN 0
                                    ELSE IF p + 1000 > end THEN end ELSE p + 1000)
        /\ lastOp.name = "keyHome" => audio.currentTime = 0
        /\ lastOp.name = "keyEnd"
            => audio.currentTime = (IF known THEN end ELSE p)
        /\ lastOp.name \in SeekKeyNames
            => ( audio.currentTime >= 0 /\ (known => audio.currentTime <= end) )

\* C14 witness: 'k' at 1:55 of a media of 2:00 wrote the duration, not 2:05
C14_Witness ==
    /\ lastOp.name = "keyK"
    /\ lastOp.arg = 11500
    /\ audio.duration = 120
    /\ audio.currentTime = 12000
    /\ feedback.text = "+10s (02:00)"

\* C15: keyboard volume never leaves [0, 1]: from volume v, ArrowUp sets min(1, v + 0.05)
\* and ArrowDown sets max(0, v - 0.05), each followed by a toast showing the resulting
\* volume as a percentage; ArrowDown reaching 0 also asserts mute.
C15_KeyVolumeStaysInRange ==
    LET v == lastOp.preVolume
        up == IF v + 5 > 100 THEN 100 ELSE v + 5
        down == IF v - 5 < 0 THEN 0 ELSE v - 5
    IN  /\ lastOp.name = "keyArrowUp"
            => ( /\ audio.volume = up
                 /\ state.volume = up
                 /\ feedback.text = "Volume: " \o NatToString(up) \o "%"
                 /\ feedback.opacity = 1 )
        /\ lastOp.name = "keyArrowDown"
            => ( /\ audio.volume = down
                 /\ state.volume = down
                 /\ feedback.text = "Volume: " \o NatToString(down) \o "%"
                 /\ feedback.opacity = 1
                 /\ (down = 0 => ( audio.muted /\ state.isMuted /\ ~icons.muteIcon )) )
        /\ lastOp.name \in {"keyArrowUp", "keyArrowDown"}
            => ( audio.volume >= 0 /\ audio.volume <= 100 )

\* C15 witness: ArrowDown at volume 0.03 reached 0 and muted the handle
C15_Witness ==
    /\ lastOp.name = "keyArrowDown"
    /\ lastOp.preVolume = 3
    /\ audio.volume = 0
    /\ audio.muted
    /\ state.isMuted
    /\ feedback.text = "Volume: 0%"

\* the targets the claim calls text-input-like
TextInputLike(target) ==
    \/ target.tagName \in {"INPUT", "TEXTAREA"}
    \/ target.isContentEditable
    \/ target.inTextbox

\* C16: a shortcut key pressed while the event target is text-input-like (INPUT, TEXTAREA,
\* contenteditable, inside role=textbox) or while the document lacks focus issues no handle
\* command and leaves PlayerState, the speed menu and the toast unchanged: a step either
\* leaves them all as they were or is not such a key press.
C16_SuppressedKeyIsNoOp ==
    [][ \/ /\ audio' = audio
           /\ tasks' = tasks
           /\ playPromise' = playPromise
           /\ state' = state
           /\ speedControl' = speedControl
           /\ feedback' = feedback
        \/ ~ \E target \in KeyTargets, hasFocus \in BOOLEAN :
                /\ TextInputLike(target) \/ ~hasFocus
                /\ \E key \in ShortcutKeys : KeyDown(key, target, hasFocus) ]_vars

\* C16 witness: a key was ignored while the handle played, the speed menu was open and a
\* toast was visible
C16_Witness ==
    /\ lastOp.name = "keydownIgnored"
    /\ ~audio.paused
    /\ state.isPlaying
    /\ ~speedControl.menuHidden
    /\ feedback.opacity = 1

\* C17: when a required element (the container, the audio element, the play/pause button)
\* is missing at initialization the controller does not attach: window.audioPlayer is not
\* exposed, and every later event leaves the handle, the elements, the timers and the
\* PlayerState as they were.
C17_MissingElementNoController ==
    [][ ( \E e \in {"container", "audioElement", "playPauseBtn"} : e \notin page.present )
          => ( /\ ~page.exposed
               /\ ~page'.exposed
               /\ UNCHANGED <<audio, state, icons, volumeSlider, seekSlider, currentTimeEl,
                              progressBar, feedback, seekDebounce, durationEl, tasks,
                              playPromise, dragging, speedControl>> ) ]_vars

\* C17 witness: on a page without the play/pause button an event came and nothing changed
C17_Witness ==
    /\ page.present = {"container", "audioElement"}
    /\ ~page.exposed
    /\ lastOp.name = "unhandledEvent"
    /\ audio.paused
    /\ feedback.opacity = 0

\* C18: in both implementations of the controller, togglePlayPause invoked while the handle
\* is not paused issues a pause command, so the handle is paused afterwards; invoked while
\* the handle is paused it issues a play request, which clears the paused flag unless the
\* request is rejected at once.
C18_ToggleOnPlayingPauses ==
    [][ \A allowed \in BOOLEAN :
            ( PlayPauseClick(allowed) \/ KeySpace(allowed) \/ VariantPlayPauseClick(allowed) )
              => IF ~audio.paused
                 THEN audio'.paused
                 ELSE audio'.paused = (~allowed \/ audio.error = "src") ]_vars

C20_TimeUpdateRespectsDrag ==
    [][ TimeUpdate
          => IF dragging
             THEN /\ currentTimeEl' = currentTimeEl
                  /\ progressBar' = progressBar
                  /\ seekSlider'.value = seekSlider.value
             ELSE LET fraction == IF audio.duration = NaN THEN Frac(0, 1)
                                  ELSE Frac(audio.currentTime, audio.duration)
                  IN  /\ currentTimeEl' = formatTime(audio.currentTime)
                      /\ progressBar' = fraction
                      /\ seekSlider'.value = fraction ]_vars

\* C21: timers never leak: at most one seek-debounce timer and at most one auto-hide timer
\* of the toast is pending in every state, and a burst of seek-slider inputs produces one
\* pending-display update, computed from the latest slider value: when the debounce timer
\* fires no other is left, and the label and the bar are those of the slider value, which
\* is the value of the latest input if no other event came after it.
C21_TimersNeverLeak ==
    [][ /\ Cardinality(seekDebounce'.pending) <= 1
        /\ Cardinality(feedback'.pending) <= 1
        /\ SeekInputCallback
            => ( /\ seekDebounce'.pending = {}
                 /\ progressBar' = seekSlider.value
                 /\ currentTimeEl' =
                      formatTime((seekSlider.value.n * DurationOrZero) \div seekSlider.value.d)
                 /\ lastOp.name = "seekSliderInput"
                      => ( /\ progressBar' = [n |-> lastOp.arg, d |-> 1]
                           /\ currentTimeEl' = formatTime(lastOp.arg * DurationOrZero) ) ) ]_vars

\* C21 witness: the slider went to 50% and then, before the debounce timer fired, to 100%:
\* one timer is pending
C21_Witness ==
    /\ lastOp.name = "seekSliderInput"
    /\ lastOp.prev = "seekSliderInput"
    /\ lastOp.arg = 100
    /\ audio.duration = 200
    /\ progressBar # seekSlider.value
    /\ Cardinality(seekDebounce.pending) = 1
    /\ Cardinality(feedback.pending) = 1

\* the handle is unready (its duration unknown) or has reported an error
Unready == audio.duration = NaN

AfterError == audio.error # "none"

\* the seek operations: the drag (the debounced body of the slider's 'input' listener), the
\* commit, and the keys 'j', 'k', Home, End
SeekOperation ==
    \/ SeekInputCallback
    \/ SeekSliderChange
    \/ KeyJ
    \/ KeyK
    \/ KeyHome
    \/ KeyEnd

\* C22: a media error event is reported with an error toast and leaves the controller as
\* it was; afterwards, and whenever the handle is unready, no operation hands the handle a
\* value it raises an error on (a position that is not a number, a volume outside [0, 1],
\* a rate that is not supported), and the seek operations are no-ops: they leave the
\* handle's position and the PlaybackState unchanged.
C22_ErrorLeavesSafeNoOps ==
    [][ /\ MediaError
            => ( /\ feedback'.type = "error"
                 /\ feedback'.opacity = 1
                 /\ feedback'.text \in {"Failed to load audio", "Playback failed"}
                 /\ state' = state
                 /\ icons' = icons
                 /\ audio' = [audio EXCEPT !.error = audio'.error] )
        /\ (Unready \/ AfterError)
            => ( /\ audio'.currentTime # NaN
                 /\ audio'.currentTime >= 0
                 /\ audio'.volume \in 0..100
                 /\ audio'.playbackRate \in SupportedRates
                 /\ SeekOperation
                      => ( /\ audio'.currentTime = audio.currentTime
                           /\ state' = state ) ) ]_vars


\* C22, amended: a media error event is reported with an error toast and changes nothing
\* else of the controller; afterwards, and whenever the handle is unready, no operation
\* hands the handle a value it raises an error on; while the duration is unknown the
\* commit and the keys 'j', 'k', Home, End leave the handle's position, and the seek
\* operations leave the PlaybackState but for isSeeking, which the drag raises and the
\* commit clears as on a ready handle.
C22_ErrorReportedNoRaise ==
    [][ /\ MediaError
            => ( /\ feedback'.type = "error"
                 /\ feedback'.opacity = 1
                 /\ feedback'.text \in {"Failed to load audio", "Playback failed"}
                 /\ state' = state
                 /\ icons' = icons
                 /\ audio' = [audio EXCEPT !.error = audio'.error] )
        /\ (Unready \/ AfterError)
            => ( /\ audio'.currentTime # NaN
                 /\ audio'.currentTime >= 0
                 /\ audio'.volume \in 0..100
                 /\ audio'.playbackRate \in SupportedRates
                 /\ (Unready /\ SeekOperation)
                      => ( /\ audio'.currentTime = audio.currentTime
                           /\ state' = [state EXCEPT !.isSeeking = state'.isSeeking] ) ) ]_vars

\* C22 witness: the source failed to load, and 'k' was pressed on the unready handle
C22_Witness ==
    /\ audio.error = "src"
    /\ audio.duration = NaN
    /\ lastOp.name = "keyK"
    /\ audio.currentTime = 0
    /\ feedback.text = "+10s (00:00)"

\* C23: after initialization and any sequence of volume operations (the slider, the mute
\* button, 'm', ArrowUp, ArrowDown) the handle is muted exactly when its volume is 0, its
\* volume is within [0, 1], and the mute icon is displayed (the volume icon hidden)
\* exactly when the handle is muted.
C23_HandleMutedIffSilent ==
    /\ audio.muted = (audio.volume = 0)
    /\ audio.volume \in 0..100
    /\ (~icons.muteIcon) = audio.muted
    /\ icons.volumeIcon = audio.muted

\* C23 witness: 'm' pressed after ArrowDown: the handle is muted at volume 0 and the mute
\* icon is displayed, whatever the flag of the PlaybackState says
C23_Witness ==
    /\ lastOp.name = "keyM"
    /\ lastOp.prev = "keyArrowDown"
    /\ audio.muted
    /\ audio.volume = 0
    /\ ~icons.muteIcon
    /\ ~state.isMuted

\* the steps in which the catch callback of a rejected play request runs
CatchNames == {"keySpace", "pauseEvent", "errorEvent", "endedEvent"}

\* C24: when a Space key press issues a play request that is rejected, the toast
\* "Playback failed" is shown after the toast of the key press and replaces it, its timer
\* cancelled.  The key press that issues the request shows "Playing" at once; when the
\* request is rejected at once the key press shows "Paused" and the error toast replaces
\* it; whenever the catch callback runs, the step ends with the error toast visible and
\* its hide timer the only one pending.
C24_ErrorToastIsLast ==
    [][ /\ ( lastOp'.name = "keySpace" /\ lastOp'.arg = 0 /\ audio.paused )
            => ( /\ playPromise' = "pending"
                 /\ feedback' = showFeedback(feedback, "Playing", "info") )
        /\ ( lastOp'.name \in CatchNames /\ lastOp'.arg = 1 )
            => ( /\ feedback'.text = "Playback failed"
                 /\ feedback'.type = "error"
                 /\ feedback'.opacity = 1
                 /\ feedback'.pending = {feedback'.timeout}
                 /\ lastOp'.name = "keySpace"
                      => feedback' = showFeedback(showFeedback(feedback, "Paused", "info"),
                                                  "Playback failed", "error")
                 /\ lastOp'.name = "pauseEvent" => Head(tasks).rejects
                 /\ lastOp'.name \in {"errorEvent", "endedEvent"}
                      => playPromise = "pending" ) ]_vars

\* C24 witness: Space was pressed while the source was loading and the source then failed:
\* the error toast is up, its timer the only one, over the "Playing" state of the key press
C24_Witness ==
    /\ lastOp.name = "errorEvent"
    /\ lastOp.arg = 1
    /\ feedback.text = "Playback failed"
    /\ feedback.opacity = 1
    /\ Cardinality(feedback.pending) = 1
    /\ state.isPlaying

=============================================================================
